---------------------------- MODULE Spec2Model ----------------------------
(***************************************************************************)
(* Model of src/setup.py: discovery of the root principal credentials in   *)
(* the Polaris container log, the token request, the seven provisioning    *)
(* calls of run_steps and the process entry point.                         *)
(*                                                                         *)
(* Python text is a sequence of one-character strings, so that slicing,    *)
(* lower(), strip(), split() and the two pattern matches are computed      *)
(* character by character.  Names, tokens and URL paths that the code only *)
(* passes along are TLA+ strings.                                          *)
(***************************************************************************)
EXTENDS Integers, Sequences, FiniteSets, TLC

VARIABLES
    pc,                \* position of the process (or of the harness call)
    containers,        \* what CLIENT.containers.list(...) returns
    r_lines,           \* result of get_root_cred_log_lines()
    cred,              \* result of extract_root_principal_credentials()
    stamps,            \* extract_timestamp of every line of the log text
    polaris_api_port,  \* run_steps: polaris_api_port
    root_auth_token,   \* run_steps: root_auth_token
    requests,          \* the HTTP requests issued so far, in order
    responses,         \* what the server answered to each of them
    principal,         \* run_steps: the value create_principal returned
    allowed_default,   \* the list object bound to create_catalog's default
    calls,             \* create_catalog calls made so far and what they sent
    notebook,          \* arguments the notebook emitter was called with
    exc,               \* the exception that ended the process, or "none"
    hour_padding       \* the interpreter's strptime takes " 7" for %H

vars ==
    <<pc, containers, r_lines, cred, stamps, polaris_api_port, root_auth_token,
      requests, responses, principal, allowed_default, calls, notebook, exc,
      hour_padding>>

-----------------------------------------------------------------------------
(* Python values *)

None ==
    [type |-> "NoneType"]

PyTuple(items) ==
    [type |-> "tuple", items |-> items]

PyList(items) ==
    [type |-> "list", items |-> items]

PyStr(s) ==
    [type |-> "str", value |-> s]

\* no exception, or the exception raised and the function that raised it
NoExc ==
    [type |-> "none", where |-> "none"]

Raised(type, where) ==
    [type |-> type, where |-> where]

\* the outcome of a call: it returned a value, or an exception left it
Returned(value) ==
    [exc |-> NoExc, value |-> value]

Raises(type, where) ==
    [exc |-> Raised(type, where), value |-> None]

-----------------------------------------------------------------------------
(* str operations, on sequences of characters *)

Digits ==
    {"0", "1", "2", "3", "4", "5", "6", "7", "8", "9"}

DigitVal ==
    "0" :> 0 @@ "1" :> 1 @@ "2" :> 2 @@ "3" :> 3 @@ "4" :> 4 @@
    "5" :> 5 @@ "6" :> 6 @@ "7" :> 7 @@ "8" :> 8 @@ "9" :> 9

\* the ASCII control characters that str.isspace() holds besides \t \n \f \r:
\* vertical tab (0x0b) and the file, group, record and unit separators
\* (0x1c..0x1f), written as the characters themselves
VerticalTab ==
    ""

FileSeparator ==
    ""

GroupSeparator ==
    ""

RecordSeparator ==
    ""

UnitSeparator ==
    ""

\* what the pattern's \s matches and str.strip() removes, in ASCII
Whitespace ==
    {" ", "\t", "\n", "\r", "\f", VerticalTab,
     FileSeparator, GroupSeparator, RecordSeparator, UnitSeparator}

UpperChars ==
    <<"A","B","C","D","E","F","G","H","I","J","K","L","M",
      "N","O","P","Q","R","S","T","U","V","W","X","Y","Z">>

LowerChars ==
    <<"a","b","c","d","e","f","g","h","i","j","k","l","m",
      "n","o","p","q","r","s","t","u","v","w","x","y","z">>

LowerChar(c) ==
    IF \E i \in DOMAIN UpperChars : UpperChars[i] = c
    THEN LowerChars[CHOOSE i \in DOMAIN UpperChars : UpperChars[i] = c]
    ELSE c

\* s.lower()
str_lower(s) ==
    [i \in 1..Len(s) |-> LowerChar(s[i])]

\* s[:n]
Take(s, n) ==
    SubSeq(s, 1, IF Len(s) < n THEN Len(s) ELSE n)

\* index of the first character of s, at or after from, that is in chars; 0 if none
Find(s, chars, from) ==
    LET hits == {i \in from..Len(s) : s[i] \in chars}
    IN  IF hits = {} THEN 0 ELSE CHOOSE i \in hits : \A j \in hits : i <= j

\* index of the first character of s, at or after from, that is no whitespace
SkipWhitespace(s, from) ==
    LET hits == {i \in from..Len(s) : s[i] \notin Whitespace}
    IN  IF hits = {} THEN 0 ELSE CHOOSE i \in hits : \A j \in hits : i <= j

\* sub in s
Contains(s, sub) ==
    \E i \in 0..(Len(s) - Len(sub)) : SubSeq(s, i + 1, i + Len(sub)) = sub

\* s.strip()
str_strip(s) ==
    LET keep == {i \in 1..Len(s) : s[i] \notin Whitespace}
    IN  IF keep = {} THEN <<>>
        ELSE SubSeq(s, CHOOSE i \in keep : \A j \in keep : i <= j,
                       CHOOSE i \in keep : \A j \in keep : j <= i)

\* s.split(sep): every piece between separators
RECURSIVE str_split(_, _)
str_split(s, sep) ==
    LET i == Find(s, {sep}, 1)
    IN  IF i = 0 THEN <<s>>
        ELSE <<SubSeq(s, 1, i - 1)>> \o str_split(SubSeq(s, i + 1, Len(s)), sep)

\* s.split(sep): a split at every separator instead of the first only
str_split_every(s, sep) ==
    str_split(s, sep)

\* s.split(sep, 1): at most one split, at the first separator
str_split_once(s, sep) ==
    LET i == Find(s, {sep}, 1)
    IN  IF i = 0 THEN <<s>>
        ELSE <<SubSeq(s, 1, i - 1), SubSeq(s, i + 1, Len(s))>>

RECURSIVE ToInt(_)
ToInt(f) ==
    IF f = <<>> THEN 0
    ELSE 10 * ToInt(SubSeq(f, 1, Len(f) - 1)) + DigitVal[f[Len(f)]]

IsDigits(f) ==
    \A i \in 1..Len(f) : f[i] \in Digits

-----------------------------------------------------------------------------
(* datetime.strptime(text, "%Y-%m-%dT%H:%M:%S.%fZ")                          *)
(* A datetime is <<year, month, day, hour, minute, second, microsecond>>.  *)

datetime_min ==
    <<1, 1, 1, 0, 0, 0, 0>>

DtLess(a, b) ==
    \E i \in 1..7 : a[i] < b[i] /\ \A j \in 1..(i - 1) : a[j] = b[j]

\* a one- or two-digit directive: the two-digit form within lo..hi, the
\* one-digit form within lo1..9
NumField(f, lo, hi, lo1) ==
    /\ Len(f) \in {1, 2}
    /\ IsDigits(f)
    /\ IF Len(f) = 2 THEN ToInt(f) \in lo..hi ELSE ToInt(f) \in lo1..9

\* %d also takes a space-padded day
DayField(f) ==
    \/ NumField(f, 1, 31, 1)
    \/ Len(f) = 2 /\ f[1] = " " /\ f[2] \in (Digits \ {"0"})

DayValue(f) ==
    IF f[1] = " " THEN DigitVal[f[2]] ELSE ToInt(f)

\* %H is 2[0-3]|[0-1]\d|\d, and in the later interpreters (CPython 3.13.13
\* for one, unlike 3.11) 2[0-3]|[0-1]\d|\d| \d, which also takes a
\* space-padded hour.  The program does not say which interpreter runs it:
\* padded tells whether the pattern has that last alternative.
HourField(f, padded) ==
    \/ NumField(f, 0, 23, 0)
    \/ padded /\ Len(f) = 2 /\ f[1] = " " /\ f[2] \in Digits

HourValue(f) ==
    IF f[1] = " " THEN DigitVal[f[2]] ELSE ToInt(f)

IsLeap(y) ==
    y % 4 = 0 /\ (y % 100 # 0 \/ y % 400 = 0)

DaysInMonth(y, m) ==
    IF m = 2 THEN (IF IsLeap(y) THEN 29 ELSE 28)
    ELSE IF m \in {4, 6, 9, 11} THEN 30 ELSE 31

\* %f: one to six digits, read as a decimal fraction of a second
Microseconds(f) ==
    ToInt(f \o [i \in 1..(6 - Len(f)) |-> "0"])

\* the text cut at the first occurrence of each separator in turn: the pieces
\* before, between and after them, or <<>> when a separator is missing
RECURSIVE CutAt(_, _)

PrependPiece(piece, rest) ==
    IF rest = <<>> THEN <<>> ELSE <<piece>> \o rest

CutFrom(text, seps, i) ==
    IF i = 0 THEN <<>>
    ELSE PrependPiece(SubSeq(text, 1, i - 1),
                      CutAt(SubSeq(text, i + 1, Len(text)), Tail(seps)))

CutAt(text, seps) ==
    IF seps = <<>> THEN <<text>> ELSE CutFrom(text, seps, Find(text, Head(seps), 1))

\* the directives' texts f = <<%Y, %m, %d, %H, %M, %S, %f>> match their patterns
FieldsMatch(f, padded) ==
    /\ Len(f[1]) = 4 /\ IsDigits(f[1])
    /\ NumField(f[2], 1, 12, 1)
    /\ DayField(f[3])
    /\ HourField(f[4], padded)
    /\ NumField(f[5], 0, 59, 0)
    /\ NumField(f[6], 0, 61, 0)
    /\ Len(f[7]) \in 1..6 /\ IsDigits(f[7])

\* datetime(...) accepts the values
FieldsInRange(f) ==
    /\ ToInt(f[1]) >= 1
    /\ DayValue(f[3]) <= DaysInMonth(ToInt(f[1]), ToInt(f[2]))
    /\ ToInt(f[6]) <= 59

ParseFields(f, padded) ==
    IF f # <<>> /\ FieldsMatch(f, padded) /\ FieldsInRange(f)
    THEN [ok |-> TRUE,
          value |-> <<ToInt(f[1]), ToInt(f[2]), DayValue(f[3]), HourValue(f[4]),
                      ToInt(f[5]), ToInt(f[6]), Microseconds(f[7])>>]
    ELSE [ok |-> FALSE, exc |-> "ValueError"]

\* text is "<line[:26]>Z".  The pattern is matched ignoring case and must
\* consume the whole text, so the fraction ends at the final "Z".
\* [ok |-> TRUE, value |-> datetime], or [ok |-> FALSE, exc |-> "ValueError"]:
\* a text that does not match, unconverted text after the match and values
\* that datetime rejects all raise ValueError
strptime(text, padded) ==
    IF text[Len(text)] \notin {"Z", "z"} THEN [ok |-> FALSE, exc |-> "ValueError"]
    ELSE ParseFields(CutAt(SubSeq(text, 1, Len(text) - 1),
                           <<{"-"}, {"-"}, {"T", "t"}, {":"}, {":"}, {"."}>>),
                     padded)

-----------------------------------------------------------------------------
(* Container lookup and the credential log lines *)

PHRASE ==
    <<"r","o","o","t"," ","p","r","i","n","c","i","p","a","l"," ",
      "c","r","e","d","e","n","t","i","a","l","s">>

\* containers[0] if the filtered list is not empty, else None
get_polaris_container(cs) ==
    IF cs # <<>> THEN cs[1] ELSE None

\* datetime.max in place of datetime.min
ValueOrLatest(parsed, fallback) ==
    IF parsed.ok THEN Returned(parsed.value)
    ELSE IF parsed.exc = "ValueError"
    THEN Returned(<<9999, 12, 31, 23, 59, 59, 999999>>)
    ELSE Raises(parsed.exc, "extract_timestamp")

\* try: return <parsed> / except ValueError: return <fallback>; any other
\* exception leaves extract_timestamp
ValueOr(parsed, fallback) ==
    IF parsed.ok THEN Returned(parsed.value)
    ELSE IF parsed.exc = "ValueError" THEN Returned(fallback)
    ELSE Raises(parsed.exc, "extract_timestamp")

\* [exc, value]: the parsed datetime of line[:26] + "Z", or datetime.min
extract_timestamp(line, padded) ==
    ValueOr(strptime(Take(line, 26) \o <<"Z">>, padded), datetime_min)

\* sorted(items, reverse=False) on precomputed keys
sorted_ascending(items, keys) ==
    LET n == Len(items)
        before(j, i) == DtLess(keys[j], keys[i]) \/ (keys[j] = keys[i] /\ j < i)
        rank(i) == 1 + Cardinality({j \in 1..n : before(j, i)})
    IN  [p \in 1..n |-> items[CHOOSE i \in 1..n : rank(i) = p]]

\* sorted(items, reverse=True) on precomputed keys: greatest key first, and
\* items with equal keys keep the order they had (the sort is stable)
sorted_reverse(items, keys) ==
    LET n == Len(items)
        before(j, i) == DtLess(keys[i], keys[j]) \/ (keys[j] = keys[i] /\ j < i)
        rank(i) == 1 + Cardinality({j \in 1..n : before(j, i)})
    IN  [p \in 1..n |-> items[CHOOSE i \in 1..n : rank(i) = p]]

\* the lines kept by the loop of get_root_cred_log_lines, in log order
RECURSIVE SelectLines(_)
SelectLines(log_lines) ==
    IF log_lines = <<>> THEN <<>>
    ELSE (IF Contains(str_lower(Head(log_lines)), PHRASE)
          THEN <<Head(log_lines)>> ELSE <<>>) \o SelectLines(Tail(log_lines))

get_root_cred_log_lines(cs, padded) ==
    LET polaris_container == get_polaris_container(cs)
    IN  IF polaris_container # None
        THEN LET log_lines == str_split(polaris_container.logs, "\n")
                 line_with_root_creds == SelectLines(log_lines)
                 keys == [i \in DOMAIN line_with_root_creds |->
                              extract_timestamp(line_with_root_creds[i], padded).value]
             IN  PyList(sorted_reverse(line_with_root_creds, keys))
        ELSE None

\* re.search(r"root principal credentials\s*:(.*?)(?:\n|$)", line, re.IGNORECASE):
\* [matched |-> FALSE], or the text of group 1 of the leftmost match
re_search_credentials(line) ==
    LET colonAfter(i) ==
            LET j == SkipWhitespace(line, i + Len(PHRASE))
            IN  IF j # 0 /\ line[j] = ":" THEN j ELSE 0
        starts == {i \in 1..(Len(line) - Len(PHRASE) + 1) :
                      /\ str_lower(SubSeq(line, i, i + Len(PHRASE) - 1)) = PHRASE
                      /\ colonAfter(i) # 0}
    IN  IF starts = {} THEN [matched |-> FALSE]
        ELSE LET i == CHOOSE s \in starts : \A t \in starts : s <= t
                 j == colonAfter(i)
                 k == Find(line, {"\n"}, j + 1)
             IN  [matched |-> TRUE,
                  group1 |-> SubSeq(line, j + 1, IF k = 0 THEN Len(line) ELSE k - 1)]

\* after the match: tuple(match.group(1).strip().split(":", 1)), or None
CredentialsOfMatch(cred_line, match) ==
    IF Contains(str_lower(cred_line), PHRASE) /\ match.matched
    THEN PyTuple(str_split_once(str_strip(match.group1), ":"))
    ELSE None

\* after r_lines = get_root_cred_log_lines()
CredentialsOfLines(lines) ==
    IF lines = None
    THEN [exc |-> Raised("TypeError", "extract_root_principal_credentials"),
          value |-> None, r_lines |-> lines]
    ELSE IF lines.items = <<>>
    THEN [exc |-> Raised("IndexError", "extract_root_principal_credentials"),
          value |-> None, r_lines |-> lines]
    ELSE [exc |-> NoExc,
          value |-> CredentialsOfMatch(lines.items[1],
                                       re_search_credentials(lines.items[1])),
          r_lines |-> lines]

\* the value returned, or the exception raised, with the r_lines it read
extract_root_principal_credentials(cs, padded) ==
    CredentialsOfLines(get_root_cred_log_lines(cs, padded))

-----------------------------------------------------------------------------
(* Port lookup, HTTP answers and the token request *)

\* get_api_port(8181): the first host port published for "8181/tcp", else None
get_api_port(cs) ==
    LET polaris_container == get_polaris_container(cs)
    IN  IF polaris_container # None
        THEN LET ports == polaris_container.attrs
                 mappings == IF "8181/tcp" \in DOMAIN ports
                             THEN ports["8181/tcp"] ELSE <<>>
             IN  IF mappings # <<>> THEN PyStr(mappings[1].HostPort) ELSE None
        ELSE None

\* the request raised before any response object existed
NoResponse ==
    [status |-> 0, content |-> "none"]

\* content is "json" (a JSON document), "text" (not JSON) or "empty"
Response(status, content) ==
    [status |-> status, content |-> content]

Responses ==
    { Response(201, "json"), Response(201, "empty"), Response(200, "json"),
      Response(304, "empty"), Response(404, "json"), Response(500, "text"),
      NoResponse }

TokenResponses ==
    { Response(200, "json"), Response(401, "json"), NoResponse }

\* response.raise_for_status() raises HTTPError
raise_for_status(r) ==
    r.status >= 400 /\ r.status < 600

\* response.json() raises JSONDecodeError
json_fails(r) ==
    r.content # "json"

\* get_auth_token: no try around the request; the token on 200, else None.
\* With polaris_api_port None the URL is "http://<host>:None/...", which
\* requests.post rejects with InvalidURL before anything is sent.
get_auth_token(polaris_api_port_arg, r) ==
    IF polaris_api_port_arg = None
    THEN Raises("InvalidURL", "get_auth_token")
    ELSE IF r = NoResponse THEN Raises("ConnectionError", "get_auth_token")
    ELSE IF r.status = 200
    THEN IF json_fails(r) THEN Raises("JSONDecodeError", "get_auth_token")
         ELSE Returned(PyStr("access_token"))
    ELSE Returned(None)

-----------------------------------------------------------------------------
(* The seven provisioning steps.  Each is                                  *)
(*     try: response = requests.<method>(...); response.raise_for_status()  *)
(*          if response.status_code == 201: ...                            *)
(*     except RequestException as e: print(response.json()); print(e)      *)

POLARIS_CATALOG_NAME ==
    "my_catalog"

POLARIS_DEFAULT_BASE_LOCATION ==
    "file:///data/polaris"

POLARIS_PRINCIPAL_NAME ==
    "polarisuser"

POLARIS_PRINCIPAL_ROLE_NAME ==
    "polarisuser_role"

POLARIS_CATALOG_ROLE_NAME ==
    "my_catalog_role"

\* the except clause shared by the seven steps: it reads response.json()
except_handler(r, where) ==
    IF r = NoResponse THEN Raises("UnboundLocalError", where)
    ELSE IF json_fails(r) THEN Raises("JSONDecodeError", where)
    ELSE Returned(None)

\* a step that returns nothing: create_principal_role, assign_role_to_principal,
\* create_catalog_role, assign_catalog_role_to_principal_role,
\* grants_to_catalog_role_on_catalog
plain_step(r, where) ==
    IF r = NoResponse \/ raise_for_status(r) THEN except_handler(r, where)
    ELSE Returned(None)

\* create_catalog after the request: on 201 with content it logs response.json()
create_catalog_response(r) ==
    IF r = NoResponse \/ raise_for_status(r) THEN except_handler(r, "create_catalog")
    ELSE IF r.status = 201 /\ r.content # "empty" /\ json_fails(r)
    THEN except_handler(r, "create_catalog")
    ELSE Returned(None)

\* the credentials the server generates for a new principal
principal_creds ==
    [clientId |-> "new-client-id", clientSecret |-> "new-client-secret"]

create_principal(r) ==
    IF r = NoResponse \/ raise_for_status(r) THEN except_handler(r, "create_principal")
    ELSE IF r.status = 201 /\ r.content # "empty"
    THEN IF json_fails(r) THEN except_handler(r, "create_principal")
         ELSE Returned(PyTuple(<<principal_creds.clientId,
                                 principal_creds.clientSecret>>))
    ELSE Returned(None)

\* create_catalog before the request: which list is sent as allowedLocations
\* and what the default list object holds afterwards.  arg is [given |-> FALSE]
\* or [given |-> TRUE, value |-> list].
create_catalog_payload(default_list, default_base_location, arg) ==
    LET allowed_locations == IF arg.given THEN arg.value ELSE default_list
        sent == IF allowed_locations = <<>>
                THEN Append(allowed_locations, default_base_location)
                ELSE allowed_locations
    IN  [allowedLocations |-> sent,
         default_list |-> IF arg.given THEN default_list ELSE sent]

\* the two API roots under http://{polaris_api_host}:{polaris_api_port}
CATALOG_API ==
    "/api/catalog/v1"

MANAGEMENT_API ==
    "/api/management/v1"

Request(api, method, path) ==
    [api |-> api, method |-> method, path |-> path]

\* method and URL of the request each function issues
RequestOf(fn) ==
    CASE fn = "get_auth_token" ->
            Request(CATALOG_API, "POST", "/oauth/tokens")
      [] fn = "create_catalog" ->
            Request(MANAGEMENT_API, "POST", "/catalogs")
      [] fn = "create_principal" ->
            Request(MANAGEMENT_API, "POST", "/principals")
      [] fn = "create_principal_role" ->
            Request(MANAGEMENT_API, "POST", "/principal-roles")
      [] fn = "assign_role_to_principal" ->
            Request(MANAGEMENT_API, "PUT",
                    "/principals/" \o POLARIS_PRINCIPAL_NAME \o "/principal-roles")
      [] fn = "create_catalog_role" ->
            Request(MANAGEMENT_API, "POST",
                    "/catalogs/" \o POLARIS_CATALOG_NAME \o "/catalog-roles")
      [] fn = "assign_catalog_role_to_principal_role" ->
            Request(MANAGEMENT_API, "PUT",
                    "/principal-roles/" \o POLARIS_PRINCIPAL_ROLE_NAME
                        \o "/catalog-roles/" \o POLARIS_CATALOG_NAME)
      [] fn = "grants_to_catalog_role_on_catalog" ->
            Request(MANAGEMENT_API, "PUT",
                    "/catalogs/" \o POLARIS_CATALOG_NAME \o "/catalog-roles/"
                        \o POLARIS_CATALOG_ROLE_NAME \o "/grants")

-----------------------------------------------------------------------------
(* run_steps and the entry point *)

generate_setup_notebook_cells(principal_client_id, principal_client_secret) ==
    [file |-> "notebooks/polaris_setup_verify.ipynb",
     polaris_catalog_name |-> POLARIS_CATALOG_NAME,
     principal_client_id |-> principal_client_id,
     principal_client_secret |-> principal_client_secret]

\* the order with steps 4 and 5 exchanged
RunStepsOrderExchanged ==
    <<"create_catalog", "create_principal", "create_principal_role",
      "create_catalog_role", "assign_role_to_principal",
      "assign_catalog_role_to_principal_role",
      "grants_to_catalog_role_on_catalog">>

\* the calls of run_steps after the token request, in program order
RunStepsOrder ==
    <<"create_catalog", "create_principal", "create_principal_role",
      "assign_role_to_principal", "create_catalog_role",
      "assign_catalog_role_to_principal_role",
      "grants_to_catalog_role_on_catalog">>

\* the position after the call of fn: the next call, or the end of run_steps
After(fn) ==
    LET i == CHOOSE k \in DOMAIN RunStepsOrder : RunStepsOrder[k] = fn
    IN  IF i < Len(RunStepsOrder) THEN RunStepsOrder[i + 1] ELSE "return"

\* run_steps has no return statement
run_steps_result ==
    None

\* a, b = value
UnpackPair(value, where) ==
    IF value = None THEN Raised("TypeError", where)
    ELSE IF Len(value.items) # 2 THEN Raised("ValueError", where)
    ELSE NoExc

Goto(e, next) ==
    /\ exc' = e
    /\ pc' = IF e = NoExc THEN next ELSE "crashed"

Issue(fn, r) ==
    /\ requests' = Append(requests, RequestOf(fn))
    /\ responses' = Append(responses, r)

\* what run_steps does with the outcome of extract_root_principal_credentials
Extracted(res) ==
    /\ cred' = res.value
    /\ Goto(IF res.exc # NoExc THEN res.exc
            ELSE UnpackPair(res.value, "run_steps"), "get_api_port")

\* run_steps: client_id, client_secret = extract_root_principal_credentials()
ExtractCredentials ==
    /\ pc = "run_steps"
    /\ Extracted(extract_root_principal_credentials(containers, hour_padding))
    /\ UNCHANGED <<hour_padding, containers, r_lines, stamps, polaris_api_port, root_auth_token, requests,
                   responses, principal, allowed_default, calls, notebook>>

\* run_steps: polaris_api_port = os.getenv("POLARIS_API_PORT", get_api_port(8181))
GetApiPort ==
    /\ pc = "get_api_port"
    /\ \E env \in {None, PyStr("8181")} :
          polaris_api_port' = IF env # None THEN env ELSE get_api_port(containers)
    /\ pc' = "get_auth_token"
    /\ UNCHANGED <<hour_padding, containers, r_lines, cred, stamps, root_auth_token, requests,
                   responses, principal, allowed_default, calls, notebook, exc>>

\* run_steps: root_auth_token = get_auth_token(...).  No server answers a URL
\* whose port is None.
GetAuthToken ==
    /\ pc = "get_auth_token"
    /\ \E r \in TokenResponses :
          /\ polaris_api_port = None => r = NoResponse
          /\ Issue("get_auth_token", r)
          /\ root_auth_token' = get_auth_token(polaris_api_port, r).value
          /\ Goto(get_auth_token(polaris_api_port, r).exc, RunStepsOrder[1])
    /\ UNCHANGED <<hour_padding, containers, r_lines, cred, stamps, polaris_api_port, principal,
                   allowed_default, calls, notebook>>

\* Step 1
CreateCatalog ==
    /\ pc = "create_catalog"
    /\ \E r \in Responses :
          LET p == create_catalog_payload(allowed_default,
                       POLARIS_DEFAULT_BASE_LOCATION, [given |-> FALSE])
          IN  /\ allowed_default' = p.default_list
              /\ calls' = Append(calls,
                     [default_base_location |-> POLARIS_DEFAULT_BASE_LOCATION,
                      given |-> FALSE, allowedLocations |-> p.allowedLocations])
              /\ Issue("create_catalog", r)
              /\ Goto(create_catalog_response(r).exc, After("create_catalog"))
    /\ UNCHANGED <<hour_padding, containers, r_lines, cred, stamps, polaris_api_port,
                   root_auth_token, principal, notebook>>

\* what run_steps does with the outcome of create_principal
PrincipalCreated(res) ==
    /\ principal' = res.value
    /\ Goto(IF res.exc # NoExc THEN res.exc
            ELSE UnpackPair(res.value, "run_steps"), After("create_principal"))

\* Step 2: principal_client_id, principal_client_secret = create_principal(...)
CreatePrincipal ==
    /\ pc = "create_principal"
    /\ \E r \in Responses :
          /\ Issue("create_principal", r)
          /\ PrincipalCreated(create_principal(r))
    /\ UNCHANGED <<hour_padding, containers, r_lines, cred, stamps, polaris_api_port,
                   root_auth_token, allowed_default, calls, notebook>>

PlainStep(fn) ==
    /\ \E r \in Responses :
          /\ Issue(fn, r)
          /\ Goto(plain_step(r, fn).exc, After(fn))
    /\ UNCHANGED <<hour_padding, containers, r_lines, cred, stamps, polaris_api_port,
                   root_auth_token, principal, allowed_default, calls, notebook>>

\* Step 3
CreatePrincipalRole ==
    /\ pc = "create_principal_role"
    /\ PlainStep("create_principal_role")

\* Step 4
AssignRoleToPrincipal ==
    /\ pc = "assign_role_to_principal"
    /\ PlainStep("assign_role_to_principal")

\* Step 5
CreateCatalogRole ==
    /\ pc = "create_catalog_role"
    /\ PlainStep("create_catalog_role")

\* Step 6
AssignCatalogRoleToPrincipalRole ==
    /\ pc = "assign_catalog_role_to_principal_role"
    /\ PlainStep("assign_catalog_role_to_principal_role")

\* Step 7
GrantsToCatalogRoleOnCatalog ==
    /\ pc = "grants_to_catalog_role_on_catalog"
    /\ PlainStep("grants_to_catalog_role_on_catalog")

\* __main__: principal_client_id, principal_client_secret = run_steps();
\* generate_setup_notebook_cells(principal_client_id, principal_client_secret)
MainAfterRunSteps ==
    /\ pc = "return"
    /\ LET value == run_steps_result
           e == UnpackPair(value, "__main__")
       IN  /\ Goto(e, "done")
           /\ notebook' = IF e = NoExc
                          THEN generate_setup_notebook_cells(value.items[1],
                                                             value.items[2])
                          ELSE notebook
    /\ UNCHANGED <<hour_padding, containers, r_lines, cred, stamps, polaris_api_port,
                   root_auth_token, requests, responses, principal,
                   allowed_default, calls>>

-----------------------------------------------------------------------------
(* Inputs: log text as docker returns it with timestamps=True *)

MaxLines ==
    3

MaxCalls ==
    3

PhraseCapitalised ==
    <<"R","o","o","t"," ","P","r","i","n","c","i","p","a","l"," ",
      "C","r","e","d","e","n","t","i","a","l","s">>

StampJan ==
    <<"2","0","2","4","-","0","1","-","0","1","T","0","0",":","0","0",":","0","0",
      ".","0","0","0","0","0","0","0","0","0","Z">>

StampJanMicro ==
    <<"2","0","2","4","-","0","1","-","0","1","T","0","0",":","0","0",":","0","0",
      ".","0","0","0","0","0","1","9","9","9","Z">>

StampJune ==
    <<"2","0","2","5","-","0","6","-","3","0","T","2","3",":","5","9",":","5","9",
      ".","9","9","9","9","9","9","9","9","9","Z">>

StampLowerT ==
    <<"2","0","2","4","-","0","3","-","0","5","t","0","7",":","0","8",":","0","9",
      ".","1","2","3","4","5","6","7","8","9","Z">>

StampSpaceDay ==
    <<"2","0","2","4","-","0","3","-"," ","6","T","0","7",":","0","8",":","0","9",
      ".","1","2","3","4","5","6","7","8","9","Z">>

StampSpaceHour ==
    <<"2","0","2","4","-","0","2","-","1","0","T"," ","7",":","0","8",":","0",
      "9",".","1","2","3","4","5","6","7","8","9","Z">>

StampMin ==
    <<"0","0","0","1","-","0","1","-","0","1","T","0","0",":","0","0",":","0","0",
      ".","0","0","0","0","0","0","0","0","0","Z">>

StampFeb30 ==
    <<"2","0","2","4","-","0","2","-","3","0","T","1","0",":","0","0",":","0","0",
      ".","0","0","0","0","0","0","0","0","0","Z">>

StampLeapSecond ==
    <<"2","0","2","4","-","1","2","-","3","1","T","2","3",":","5","9",":","6","0",
      ".","0","0","0","0","0","0","0","0","0","Z">>

StampGarbage ==
    <<"p","o","l","a","r","i","s","-","1"," "," ","|"," ","I","N","F","O">>

\* a stamp whose first 26 characters hold the final "Z"
StampFiveDigits ==
    <<"2","0","2","4","-","0","1","-","0","1","T","0","0",":","0","0",":","0",
      "0",".","0","0","0","0","0","Z">>

\* lines shorter than 26 characters: a stamp cut before its fraction, and a
\* stamp with a one-digit fraction
StampNoFraction ==
    <<"2","0","2","4","-","0","1","-","0","1","T","0","0",":","0","0",":","0",
      "0">>

StampShortFraction ==
    <<"2","0","2","4","-","0","1","-","0","1","T","0","0",":","0","0",":","0",
      "0",".","5">>

MsgStarted ==
    <<"I","N","F","O"," ","s","e","r","v","e","r"," ","l","i","s","t","e","n","i",
      "n","g"," ","o","n"," ",":","8","1","8","1">>

Some ==
    <<"s","o","m","e"," ">>

Abc ==
    <<"a","b","c">>

Xyz ==
    <<"x","y","z">>

SecretWithColons ==
    <<"s",":","e",":","c">>

IdWithSpace ==
    <<"a"," ","b"," ">>

SecretWithSpace ==
    <<" ","c"," ","d">>

\* "<prefix>root principal credentials<gap>:<pad1><A>:<B><pad2>"
CredentialLine(prefix, phrase, gap, pad1, a, b, pad2) ==
    prefix \o phrase \o gap \o <<":">> \o pad1 \o a \o <<":">> \o b \o pad2

Prefixes ==
    { <<>>, StampJan \o <<" ">> \o Some, StampGarbage \o <<" ",":"," ">> }

Phrases ==
    { PHRASE, PhraseCapitalised }

Gaps ==
    { <<>>, <<" ">>, <<VerticalTab>> }

Pads ==
    { <<>>, <<" ","\t">>, <<FileSeparator, VerticalTab>> }

ClientIds ==
    { Abc, <<>>, IdWithSpace }

ClientSecrets ==
    { Xyz, <<>>, SecretWithColons, SecretWithSpace }

\* what follows the phrase in a line that lacks the "<A>:<B>" suffix
NoColonTails ==
    { <<>>, <<" ">> \o Abc, <<" ","-"," ">> \o Abc }

OnePartTails ==
    { <<":">>, <<":"," ">> \o Abc, <<" ",":"," ">> \o Abc \o <<" ">> }

PairLines ==
    { CredentialLine(p, ph, g, p1, a, b, p2) :
        p \in Prefixes, ph \in Phrases, g \in Gaps, p1 \in Pads,
        a \in ClientIds, b \in ClientSecrets, p2 \in Pads }

NoPairLines ==
    { p \o ph \o t : p \in Prefixes, ph \in Phrases,
                     t \in NoColonTails \cup OnePartTails }

\* the lines that multi-line logs are made of
SortLines ==
    { StampJan \o <<" ">> \o PHRASE \o <<":"," ">> \o Abc \o <<":">> \o Xyz,
      StampJune \o <<" ">> \o PhraseCapitalised \o <<" ",":"," ">> \o Abc
                \o <<":">> \o SecretWithColons,
      StampJanMicro \o <<" ">> \o MsgStarted,
      StampLowerT \o <<" ">> \o PHRASE \o <<":">> \o Xyz \o <<":">> \o Abc,
      StampSpaceHour \o <<" ">> \o PhraseCapitalised \o <<":">> \o Abc
                     \o <<":">> \o Abc,
      StampMin \o <<" ">> \o PHRASE \o <<":"," ">> \o Xyz \o <<":">> \o Xyz,
      StampFeb30 \o <<" ">> \o PHRASE \o <<":"," ">> \o Abc,
      StampGarbage \o <<" ">> \o PHRASE \o <<" ">> \o Abc }

\* log text: every line ends with a newline
RECURSIVE JoinLines(_)
JoinLines(lines) ==
    IF lines = <<>> THEN <<>>
    ELSE Head(lines) \o <<"\n">> \o JoinLines(Tail(lines))

RECURSIVE SeqsUpTo(_, _)
SeqsUpTo(S, n) ==
    IF n = 0 THEN {<<>>}
    ELSE LET shorter == SeqsUpTo(S, n - 1)
         IN  shorter \cup {Append(s, x) : s \in shorter, x \in S}

\* lines without the phrase, each the only line of its log
SingleLines ==
    { <<>>, Abc, StampNoFraction, StampShortFraction,
      StampFiveDigits \o <<" ">> \o MsgStarted,
      StampSpaceDay \o <<" ">> \o MsgStarted,
      StampLeapSecond \o <<" ">> \o MsgStarted }

LogTexts ==
    {JoinLines(ls) : ls \in SeqsUpTo(SortLines, MaxLines)}
    \cup {JoinLines(<<l>>) : l \in PairLines \cup NoPairLines \cup SingleLines}

Published ==
    "8181/tcp" :> <<[HostIp |-> "0.0.0.0", HostPort |-> "32000"]>>

Unpublished ==
    "9000/tcp" :> <<[HostIp |-> "0.0.0.0", HostPort |-> "32001"]>>

Container(logs, attrs) ==
    [id |-> "polaris", logs |-> logs, attrs |-> attrs]

\* "2024-01-01T00:00:00.000000000Z some root principal credentials: abc:xyz"
ScenarioLog ==
    JoinLines(<<StampJan \o <<" ">> \o Some \o PHRASE \o <<":"," ">> \o Abc
                         \o <<":">> \o Xyz>>)

RunContainers ==
    { <<>>,
      <<Container(ScenarioLog, Published)>>,
      <<Container(ScenarioLog, Unpublished)>>,
      <<Container(JoinLines(<<StampJan \o <<" ">> \o MsgStarted>>), Published)>>,
      <<Container(JoinLines(<<StampJan \o <<" ">> \o PHRASE \o <<":"," ">> \o Abc>>),
                  Published)>>,
      <<Container(JoinLines(<<StampJan \o <<" ">> \o PHRASE \o <<" ">> \o Abc>>),
                  Published)>> }

BaseLocations ==
    { "file:///data/polaris", "s3://bucket/warehouse" }

AllowedArgs ==
    { [given |-> FALSE], [given |-> TRUE, value |-> <<>>],
      [given |-> TRUE, value |-> <<"s3://bucket/other">>] }

-----------------------------------------------------------------------------
(* Calls of single functions *)

\* get_root_cred_log_lines()
CallGetRootCredLogLines ==
    /\ pc = "input"
    /\ r_lines' = get_root_cred_log_lines(containers, hour_padding)
    /\ pc' = "lines"
    /\ UNCHANGED <<hour_padding, containers, cred, stamps, polaris_api_port, root_auth_token,
                   requests, responses, principal, allowed_default, calls,
                   notebook, exc>>

Called(res) ==
    /\ r_lines' = res.r_lines
    /\ cred' = res.value
    /\ Goto(res.exc, "extracted")

\* extract_root_principal_credentials()
CallExtractRootPrincipalCredentials ==
    /\ pc = "input"
    /\ Called(extract_root_principal_credentials(containers, hour_padding))
    /\ UNCHANGED <<hour_padding, containers, stamps, polaris_api_port, root_auth_token, requests,
                   responses, principal, allowed_default, calls, notebook>>

\* the calls' return values, and the first exception that left one of them
Stamped(outcomes) ==
    LET raised == {i \in DOMAIN outcomes : outcomes[i].exc # NoExc}
    IN  /\ stamps' = [i \in DOMAIN outcomes |-> outcomes[i].value]
        /\ Goto(IF raised = {} THEN NoExc
                ELSE outcomes[CHOOSE i \in raised : \A j \in raised : i <= j].exc,
                "stamped")

\* extract_timestamp(line), for every line of the log text
CallExtractTimestamp ==
    /\ pc = "input"
    /\ containers # <<>>
    /\ Stamped([i \in DOMAIN str_split(containers[1].logs, "\n") |->
                   extract_timestamp(str_split(containers[1].logs, "\n")[i],
                                     hour_padding)])
    /\ UNCHANGED <<hour_padding, containers, r_lines, cred, polaris_api_port, root_auth_token,
                   requests, responses, principal, allowed_default, calls,
                   notebook>>

\* create_catalog(token, uri, default_base_location=base[, allowed_locations=...]),
\* called again and again in one process
CallCreateCatalog ==
    /\ pc = "catalog"
    /\ Len(calls) < MaxCalls
    /\ \E base \in BaseLocations, arg \in AllowedArgs, r \in Responses :
          LET p == create_catalog_payload(allowed_default, base, arg)
          IN  /\ allowed_default' = p.default_list
              /\ calls' = Append(calls,
                     [default_base_location |-> base, given |-> arg.given,
                      allowedLocations |-> p.allowedLocations])
              /\ Issue("create_catalog", r)
              /\ Goto(create_catalog_response(r).exc, "catalog")
    /\ UNCHANGED <<hour_padding, containers, r_lines, cred, stamps, polaris_api_port,
                   root_auth_token, principal, notebook>>

-----------------------------------------------------------------------------
(* Specifications *)

Idle ==
    /\ hour_padding \in BOOLEAN
    /\ r_lines = None
    /\ cred = None
    /\ stamps = <<>>
    /\ polaris_api_port = None
    /\ root_auth_token = None
    /\ requests = <<>>
    /\ responses = <<>>
    /\ principal = None
    /\ allowed_default = <<>>
    /\ calls = <<>>
    /\ notebook = None
    /\ exc = NoExc

\* the process entry point
Init ==
    /\ pc = "run_steps"
    /\ containers \in RunContainers
    /\ Idle

Next ==
    \/ ExtractCredentials
    \/ GetApiPort
    \/ GetAuthToken
    \/ CreateCatalog
    \/ CreatePrincipal
    \/ CreatePrincipalRole
    \/ AssignRoleToPrincipal
    \/ CreateCatalogRole
    \/ AssignCatalogRoleToPrincipalRole
    \/ GrantsToCatalogRoleOnCatalog
    \/ MainAfterRunSteps

Spec ==
    Init /\ [][Next]_vars

\* the log functions, each applied to a log drawn from LogTexts
InitLog ==
    /\ pc = "input"
    /\ containers \in {<<>>} \cup {<<Container(t, Published)>> : t \in LogTexts}
    /\ Idle

NextLog ==
    \/ CallGetRootCredLogLines
    \/ CallExtractRootPrincipalCredentials
    \/ CallExtractTimestamp

SpecLog ==
    InitLog /\ [][NextLog]_vars

\* create_catalog called repeatedly
InitCatalog ==
    /\ pc = "catalog"
    /\ containers = <<>>
    /\ Idle

NextCatalog ==
    CallCreateCatalog

SpecCatalog ==
    InitCatalog /\ [][NextCatalog]_vars

-----------------------------------------------------------------------------
(* Properties of run_steps and the entry point, under Spec *)

\* the seven management-API requests, in the documented order
DocumentedRequests ==
    << [api |-> "/api/management/v1", method |-> "POST", path |-> "/catalogs"],
       [api |-> "/api/management/v1", method |-> "POST", path |-> "/principals"],
       [api |-> "/api/management/v1", method |-> "POST", path |-> "/principal-roles"],
       [api |-> "/api/management/v1", method |-> "PUT",
        path |-> "/principals/polarisuser/principal-roles"],
       [api |-> "/api/management/v1", method |-> "POST",
        path |-> "/catalogs/my_catalog/catalog-roles"],
       [api |-> "/api/management/v1", method |-> "PUT",
        path |-> "/principal-roles/polarisuser_role/catalog-roles/my_catalog"],
       [api |-> "/api/management/v1", method |-> "PUT",
        path |-> "/catalogs/my_catalog/catalog-roles/my_catalog_role/grants"] >>

IsManagement(q) ==
    q.api = "/api/management/v1"

ManagementRequests ==
    SelectSeq(requests, IsManagement)

\* positions in requests/responses of the provisioning steps
StepIndexes ==
    {i \in DOMAIN requests : IsManagement(requests[i])}

StepFunctions ==
    {"create_catalog", "create_principal", "create_principal_role",
     "assign_role_to_principal", "create_catalog_role",
     "assign_catalog_role_to_principal_role", "grants_to_catalog_role_on_catalog"}

TokenRequested ==
    \E i \in DOMAIN requests : ~IsManagement(requests[i])

TokenGranted ==
    \E i \in DOMAIN requests : ~IsManagement(requests[i]) /\ responses[i].status = 200

\* no further request can follow
RunStepsOver ==
    pc \in {"return", "done", "crashed"}

Non2xx(r) ==
    r # NoResponse /\ r.status \notin 200..299

\* the call succeeded: a 2xx answer, and for POST /principals the 201 answer
\* that carries the generated credentials
StepSucceeded(i) ==
    /\ responses[i].status \in 200..299
    /\ requests[i].path = "/principals" =>
          responses[i].status = 201 /\ responses[i].content = "json"

\* the call was answered 201 Created with a JSON body
StepCreated(i) ==
    responses[i].status = 201 /\ responses[i].content = "json"

\* the call failed with an error status whose body is the server's JSON error
StepRejected(i) ==
    Non2xx(responses[i]) /\ responses[i].content = "json"

\* C1: once the root token has been requested, whichever steps are answered
\* with a non-2xx status, all seven requests are issued in the documented
\* order.  Stated for the failures the except clause is able to log (an error
\* status with a JSON body); the claim covers these.
C1_FailedStepNeverAbortsSequence ==
    ( /\ RunStepsOver
      /\ TokenRequested
      /\ exc.where # "get_auth_token"
      /\ \A i \in StepIndexes : StepCreated(i) \/ StepRejected(i) )
    => ManagementRequests = DocumentedRequests

\* C2: when the lookups and every HTTP call succeed, the management requests
\* issued so far are the first ones of the documented list, no step raises,
\* and at the end of run_steps they are exactly the seven documented requests.
C2_SevenRequestsInOrder ==
    ( TokenGranted /\ \A i \in StepIndexes : StepSucceeded(i) )
    => /\ Len(ManagementRequests) <= 7
       /\ ManagementRequests = SubSeq(DocumentedRequests, 1, Len(ManagementRequests))
       /\ exc.where \notin StepFunctions \cup {"run_steps"}
       /\ RunStepsOver => Len(ManagementRequests) = 7

C2_Witness ==
    /\ pc = "return"
    /\ TokenGranted
    /\ \A i \in StepIndexes : StepSucceeded(i)
    /\ Len(ManagementRequests) = 7
    /\ cred = PyTuple(<<Abc, Xyz>>)
    /\ polaris_api_port = PyStr("32000")

\* C3: when every lookup and every HTTP call succeeds, the process ends having
\* called the notebook emitter with the credentials create_principal returned
\* and written notebooks/polaris_setup_verify.ipynb.
C3_NotebookWritten ==
    ( /\ pc \in {"done", "crashed"}
      /\ TokenGranted
      /\ Len(ManagementRequests) = 7
      /\ \A i \in StepIndexes : StepCreated(i) )
    => /\ pc = "done"
       /\ notebook # None
       /\ notebook.file = "notebooks/polaris_setup_verify.ipynb"
       /\ notebook.principal_client_id = principal.items[1]
       /\ notebook.principal_client_secret = principal.items[2]

\* C4: each step function issues one request with its documented method and
\* path, and returns normally whenever the server answers with a non-2xx status.
C4_StepReturnsOnNon2xx ==
    /\ Len(ManagementRequests) <= 7
    /\ ManagementRequests = SubSeq(DocumentedRequests, 1, Len(ManagementRequests))
    /\ Len(responses) = Len(requests)
    /\ \A i \in StepIndexes :
          (i = Len(requests) /\ Non2xx(responses[i])) => exc.where \notin StepFunctions

\* C5: when the request of a step raises before any response exists, the step
\* catches it and returns normally.
C5_StepReturnsOnNetworkError ==
    \A i \in StepIndexes :
        (i = Len(requests) /\ responses[i] = NoResponse) => exc.where \notin StepFunctions

-----------------------------------------------------------------------------
(* Properties of the log functions, under SpecLog *)

\* the lines of the log text (each ends with a newline)
LogLines ==
    IF containers = <<>> THEN <<>>
    ELSE LET pieces == str_split(containers[1].logs, "\n")
         IN  SubSeq(pieces, 1, Len(pieces) - 1)

Matches(line) ==
    Contains(str_lower(line), PHRASE)

\* The timestamps that the stamps of the input lines denote, read off their
\* first 26 characters: year, month, day, hour, minute, second, microsecond.
\* The stamp with the space-padded hour denotes one only to an interpreter
\* whose %H takes it.
ValidStamps ==
    (IF hour_padding
     THEN {[stamp |-> StampSpaceHour, at |-> <<2024, 2, 10, 7, 8, 9, 123456>>]}
     ELSE {}) \cup
    { [stamp |-> StampJan,           at |-> <<2024, 1, 1, 0, 0, 0, 0>>],
      [stamp |-> StampJanMicro,      at |-> <<2024, 1, 1, 0, 0, 0, 1>>],
      [stamp |-> StampJune,          at |-> <<2025, 6, 30, 23, 59, 59, 999999>>],
      [stamp |-> StampLowerT,        at |-> <<2024, 3, 5, 7, 8, 9, 123456>>],
      [stamp |-> StampSpaceDay,      at |-> <<2024, 3, 6, 7, 8, 9, 123456>>],
      [stamp |-> StampMin,           at |-> <<1, 1, 1, 0, 0, 0, 0>>],
      [stamp |-> StampShortFraction, at |-> <<2024, 1, 1, 0, 0, 0, 500000>>] }

\* the line starts with a stamp that denotes a timestamp
KnownValid(line) ==
    \E e \in ValidStamps : Take(line, Len(e.stamp)) = e.stamp

StampAt(line) ==
    (CHOOSE e \in ValidStamps : Take(line, Len(e.stamp)) = e.stamp).at

\* The lines whose first 26 characters denote no timestamp: the empty line,
\* lines shorter than 26 characters without a fraction, and lines that start
\* with 30 February, with second 60, with a stamp whose "Z" is among the 26
\* characters, or with text that is no stamp at all; and, to an interpreter
\* whose %H takes no space, the lines with a space-padded hour.
KnownUnparseable(line) ==
    \/ line \in {<<>>, Abc, StampNoFraction}
    \/ ~hour_padding /\ Take(line, Len(StampSpaceHour)) = StampSpaceHour
    \/ \E u \in {StampFeb30, StampLeapSecond, StampFiveDigits, StampGarbage,
                  PHRASE, PhraseCapitalised} : Take(line, Len(u)) = u

AllStampsValidAndDistinct(lines) ==
    /\ \A i \in DOMAIN lines : KnownValid(lines[i])
    /\ \A i, j \in DOMAIN lines : i # j => StampAt(lines[i]) # StampAt(lines[j])

Returned_lines ==
    r_lines.items

\* C6: for log lines with distinct valid timestamps, get_root_cred_log_lines
\* returns exactly the lines that contain the phrase (in any letter case),
\* newest first, so its first element is the matching line with the greatest
\* timestamp wherever that line stands in the log.
C6_NewestMatchingLineFirst ==
    ( pc = "lines" /\ containers # <<>> /\ AllStampsValidAndDistinct(LogLines) )
    => /\ Len(Returned_lines)
            = Cardinality({i \in DOMAIN LogLines : Matches(LogLines[i])})
       /\ {Returned_lines[p] : p \in DOMAIN Returned_lines}
            = {LogLines[i] : i \in {k \in DOMAIN LogLines : Matches(LogLines[k])}}
       /\ \A p, q \in DOMAIN Returned_lines :
             p < q => DtLess(StampAt(Returned_lines[q]), StampAt(Returned_lines[p]))
       /\ \A i \in DOMAIN LogLines :
             (Matches(LogLines[i]) /\ LogLines[i] # Returned_lines[1])
             => DtLess(StampAt(LogLines[i]), StampAt(Returned_lines[1]))

\* three lines, the newest matching one (its hour space-padded) last in the
\* log and a non-matching one among them
C6_Witness ==
    /\ pc = "lines"
    /\ containers # <<>>
    /\ AllStampsValidAndDistinct(LogLines)
    /\ Len(LogLines) = 3
    /\ Len(Returned_lines) = 2
    /\ Returned_lines[1] = LogLines[3]
    /\ Returned_lines[2] = LogLines[1]
    /\ Contains(Returned_lines[1], PhraseCapitalised)
    /\ Take(Returned_lines[1], Len(StampSpaceHour)) = StampSpaceHour

\* C7: when the most recent matching line is
\* "<prefix>root principal credentials: <A>:<B>", the result is the pair
\* (A, B): the text after the phrase's colon is stripped and cut at its first
\* colon only, so colons in B stay in B and colons of the prefix are not used.
C7_PairFromFirstColon ==
    pc = "extracted" =>
        \A p \in Prefixes, ph \in Phrases, g \in Gaps, p1 \in Pads,
           a \in ClientIds, b \in ClientSecrets, p2 \in Pads :
            Returned_lines[1] = CredentialLine(p, ph, g, p1, a, b, p2)
            => cred = PyTuple(<<a, b>>)

C7_Witness ==
    /\ pc = "extracted"
    /\ Returned_lines[1] = CredentialLine(StampJan \o <<" ">> \o Some,
                               PhraseCapitalised, <<" ">>, <<" ", "\t">>,
                               Abc, SecretWithColons, <<" ", "\t">>)
    /\ cred = PyTuple(<<Abc, SecretWithColons>>)

\* C8: when the most recent selected line holds the phrase without the
\* "<A>:<B>" suffix (no colon after the phrase, or a colon followed by text
\* with no second colon), no pair is returned and no tuple of another size.
C8_NoPairWithoutSuffix ==
    pc = "extracted" =>
        \A p \in Prefixes, ph \in Phrases, t \in NoColonTails \cup OnePartTails :
            Returned_lines[1] = p \o ph \o t => cred = None

\* a line of r_lines whose first 26 characters denote / do not denote a
\* timestamp
ValidAt(p) ==
    KnownValid(Returned_lines[p])

UnparseableAt(q) ==
    KnownUnparseable(Returned_lines[q])

\* extract_timestamp raised for no line, and every line without a timestamp
\* (the empty text after the last newline included) got 0001-01-01T00:00:00,
\* every line with one its timestamp
UnparseableGetMinimum ==
    /\ exc.where # "extract_timestamp"
    /\ pc = "stamped" =>
          /\ exc = NoExc
          /\ Len(stamps) = Len(LogLines) + 1
          /\ stamps[Len(stamps)] = <<1, 1, 1, 0, 0, 0, 0>>
          /\ \A i \in DOMAIN LogLines :
                /\ KnownUnparseable(LogLines[i]) => stamps[i] = <<1, 1, 1, 0, 0, 0, 0>>
                /\ KnownValid(LogLines[i]) => stamps[i] = StampAt(LogLines[i])

\* C9 as stated: extract_timestamp never raises and unparseable lines get the
\* minimum timestamp, so in the descending sort every unparseable line comes
\* after every line with a valid timestamp.
C9_UnparseableAfterEveryValid ==
    /\ UnparseableGetMinimum
    /\ (pc = "lines" /\ containers # <<>>) =>
          \A p, q \in DOMAIN Returned_lines :
              (ValidAt(p) /\ UnparseableAt(q)) => p < q

\* C9 (amended): extract_timestamp never raises and gives every unparseable
\* line the minimum timestamp 0001-01-01T00:00:00, so in the descending sort
\* every unparseable line comes after every line whose valid timestamp is
\* later than that minimum.
C9_UnparseableAfterLaterThanMinimum ==
    /\ UnparseableGetMinimum
    /\ (pc = "lines" /\ containers # <<>>) =>
          \A p, q \in DOMAIN Returned_lines :
              ( /\ ValidAt(p)
                /\ StampAt(Returned_lines[p]) # <<1, 1, 1, 0, 0, 0, 0>>
                /\ UnparseableAt(q) )
              => p < q

\* a matching line that the interpreter cannot parse (its hour is
\* space-padded, and %H takes no space) stands first in the log and is
\* returned last, after two lines with valid timestamps
C9_Witness ==
    /\ pc = "lines"
    /\ containers # <<>>
    /\ ~hour_padding
    /\ Len(LogLines) = 3
    /\ Len(Returned_lines) = 3
    /\ Take(LogLines[1], Len(StampSpaceHour)) = StampSpaceHour
    /\ KnownUnparseable(LogLines[1])
    /\ Returned_lines[3] = LogLines[1]
    /\ ValidAt(1) /\ ValidAt(2)

-----------------------------------------------------------------------------
(* Property of repeated create_catalog calls, under SpecCatalog *)

\* C10: every call made without allowed_locations sends allowedLocations equal
\* to the one-element list of its own default_base_location, whatever the
\* earlier calls were.  Stated for processes in which every call returned.
C10_DefaultAllowedLocationsOwnBase ==
    pc = "catalog" =>
        \A i \in DOMAIN calls :
            ~calls[i].given
            => calls[i].allowedLocations = <<calls[i].default_base_location>>

=============================================================================
